---- MODULE Spec2Model ----
(***************************************************************************)
(* Model of src/src/draw/Area.ts: the Area class (two merged lists of      *)
(* Grid rectangles, the sweep-line merge, the occupancy query, union) and  *)
(* the AStarPathfinder class (findPath over the occupancy of an Area).     *)
(*                                                                         *)
(* JavaScript arrays are objects with identity: `heap` maps an array       *)
(* reference to the array's contents, and an Area holds two references.    *)
(* A Grid is a record whose fields dx and dy may be absent, as in the      *)
(* TypeScript interface.                                                   *)
(***************************************************************************)
EXTENDS Integers, Sequences, FiniteSets, TLC

VARIABLES heap, areas, raw, snap, lastOp, nops, pathfinder, calls

vars == <<heap, areas, raw, snap, lastOp, nops, pathfinder, calls>>

(***************************************************************************)
(* Bounds                                                                  *)
(***************************************************************************)
\* Spec: side of the window the regions of the two Areas lie in
Win == 2
\* Spec, SpecHole: number of calls made after construction
MaxOps == 2
\* SpecHole: side of the window the regions of the Area lie in
HoleWin == 3
\* SpecMerge: side of the window the regions passed to add lie in
MergeWin == 2
\* SpecMerge: total number of regions ever passed to add
MaxRaw == 2
\* SpecPath: the endpoints of a call lie in -1..PathWin, the obstacle is a
\* square of side at most PathWin + 2
PathWin == 2
\* SpecPath, SpecConc: number of cells a call takes from its open list
MaxExpand == 24
\* SpecConc: number of calls in flight
MaxCalls == 2

(***************************************************************************)
(* Program constants                                                       *)
(***************************************************************************)
\* the default of the parameter turnPenalty (Area.ts:272)
DefaultTurnPenalty == 2

(***************************************************************************)
(* Grid (Area.ts:6-11)                                                     *)
(***************************************************************************)
\* a Grid literal; w = 0 (h = 0) stands for a literal without dx (dy)
Grid(x, y, w, h) ==
    IF w = 0 /\ h = 0 THEN [x |-> x, y |-> y]
    ELSE IF h = 0 THEN [x |-> x, y |-> y, dx |-> w]
    ELSE IF w = 0 THEN [x |-> x, y |-> y, dy |-> h]
    ELSE [x |-> x, y |-> y, dx |-> w, dy |-> h]

\* grid.dx ?? 1
dxOf(grid) == IF "dx" \in DOMAIN grid THEN grid.dx ELSE 1

\* grid.dy ?? 1
dyOf(grid) == IF "dy" \in DOMAIN grid THEN grid.dy ELSE 1

(***************************************************************************)
(* Area._isPointInGrids (Area.ts:127-139)                                  *)
(***************************************************************************)
\* variant: the right and bottom edges taken as inside the grid
isPointInGridsInclusive(x, y, grids) ==
    \E k \in 1..Len(grids) :
        /\ x >= grids[k].x
        /\ x <= grids[k].x + dxOf(grids[k])
        /\ y >= grids[k].y
        /\ y <= grids[k].y + dyOf(grids[k])

isPointInGrids(x, y, grids) ==
    \E k \in 1..Len(grids) :
        /\ x >= grids[k].x
        /\ x < grids[k].x + dxOf(grids[k])
        /\ y >= grids[k].y
        /\ y < grids[k].y + dyOf(grids[k])

(***************************************************************************)
(* Area._mergeGrids (Area.ts:147-213)                                      *)
(***************************************************************************)
\* Step 1: the Set of every grid's left and right edge
xCoords(grids) ==
    {grids[k].x : k \in 1..Len(grids)}
        \cup {grids[k].x + dxOf(grids[k]) : k \in 1..Len(grids)}

\* Array.from(set).sort((a, b) => a - b)
RECURSIVE sortAscending(_)
sortAscending(S) ==
    IF S = {} THEN <<>>
    ELSE LET m == CHOOSE v \in S : \A w \in S : v <= w
         IN <<m>> \o sortAscending(S \ {m})

\* Step 3: the y-intervals of the grids covering the strip [x1, x2), in
\* input order
RECURSIVE yIntervalsOf(_, _, _)
yIntervalsOf(grids, x1, x2) ==
    IF grids = <<>> THEN <<>>
    ELSE LET grid == Head(grids)
             rest == yIntervalsOf(Tail(grids), x1, x2)
         IN IF grid.x <= x1 /\ (grid.x + dxOf(grid)) >= x2
            THEN <<[start |-> grid.y, end |-> grid.y + dyOf(grid)]>> \o rest
            ELSE rest

\* insert into a list sorted by start, behind the entries with the same start
RECURSIVE insertByStart(_, _)
insertByStart(sorted, iv) ==
    IF sorted = <<>> THEN <<iv>>
    ELSE IF Head(sorted).start <= iv.start
         THEN <<Head(sorted)>> \o insertByStart(Tail(sorted), iv)
         ELSE <<iv>> \o sorted

\* yIntervals.sort((a, b) => a.start - b.start), a stable sort
RECURSIVE sortByStart(_)
sortByStart(ivs) ==
    IF ivs = <<>> THEN <<>>
    ELSE insertByStart(sortByStart(SubSeq(ivs, 1, Len(ivs) - 1)), ivs[Len(ivs)])

Max(a, b) == IF a >= b THEN a ELSE b

\* variant: the accumulator takes the next interval's end without Math.max
RECURSIVE mergeLoopNoMax(_, _, _)
mergeLoopNoMax(ivs, j, currentMerge) ==
    IF j > Len(ivs) THEN <<currentMerge>>
    ELSE LET nextInterval == ivs[j]
         IN IF nextInterval.start <= currentMerge.end
            THEN mergeLoopNoMax(ivs, j + 1,
                     [currentMerge EXCEPT !.end = nextInterval.end])
            ELSE <<currentMerge>> \o mergeLoopNoMax(ivs, j + 1, nextInterval)

\* variant: the next interval is compared with the accumulator's start
RECURSIVE mergeLoopByStart(_, _, _)
mergeLoopByStart(ivs, j, currentMerge) ==
    IF j > Len(ivs) THEN <<currentMerge>>
    ELSE LET nextInterval == ivs[j]
         IN IF nextInterval.start <= currentMerge.start
            THEN mergeLoopByStart(ivs, j + 1,
                     [currentMerge EXCEPT !.end = Max(currentMerge.end, nextInterval.end)])
            ELSE <<currentMerge>> \o mergeLoopByStart(ivs, j + 1, nextInterval)

\* Step 4: the loop over the sorted intervals, from index j with the
\* accumulator currentMerge, followed by the final push
RECURSIVE mergeLoop(_, _, _)
mergeLoop(ivs, j, currentMerge) ==
    IF j > Len(ivs) THEN <<currentMerge>>
    ELSE LET nextInterval == ivs[j]
         IN IF nextInterval.start <= currentMerge.end
            THEN mergeLoop(ivs, j + 1,
                     [currentMerge EXCEPT !.end = Max(currentMerge.end, nextInterval.end)])
            ELSE <<currentMerge>> \o mergeLoop(ivs, j + 1, nextInterval)

mergedYIntervals(ivs) == mergeLoop(sortByStart(ivs), 2, sortByStart(ivs)[1])

\* variant: dy taken as the interval's end
newGridDyEnd(x1, stripWidth, interval) ==
    LET dy == interval.end
    IN Grid(x1, interval.start,
            IF stripWidth > 1 THEN stripWidth ELSE 0,
            IF dy > 1 THEN dy ELSE 0)

\* Step 5: the grid of one merged interval; dx and dy are set only above 1
newGrid(x1, stripWidth, interval) ==
    LET dy == interval.end - interval.start
    IN Grid(x1, interval.start,
            IF stripWidth > 1 THEN stripWidth ELSE 0,
            IF dy > 1 THEN dy ELSE 0)

\* Steps 2-5 for the strip between sortedX[i] and sortedX[i+1]
stripGrids(grids, sortedX, i) ==
    LET x1 == sortedX[i]
        x2 == sortedX[i + 1]
        stripWidth == x2 - x1
        yIntervals == yIntervalsOf(grids, x1, x2)
    IN IF stripWidth <= 0 THEN <<>>
       ELSE IF Len(yIntervals) = 0 THEN <<>>
       ELSE LET merged == mergedYIntervals(yIntervals)
            IN [k \in 1..Len(merged) |-> newGrid(x1, stripWidth, merged[k])]

RECURSIVE sweep(_, _, _)
sweep(grids, sortedX, i) ==
    IF i > Len(sortedX) - 1 THEN <<>>
    ELSE stripGrids(grids, sortedX, i) \o sweep(grids, sortedX, i + 1)

mergeGrids(grids) ==
    IF Len(grids) = 0 THEN <<>>
    ELSE sweep(grids, sortAscending(xCoords(grids)), 1)

(***************************************************************************)
(* The Area object (Area.ts:23-122) over a store st = [heap, areas]:       *)
(* st.heap[r] is the contents of the array with reference r, st.areas[t]   *)
(* the two array references held by Area t.  Every operation returns the   *)
(* new store and, in ret, the Area it returns.                             *)
(***************************************************************************)
\* the field initialisers `positive: Grid[] = []`, `negative: Grid[] = []`
newArea(st) ==
    LET p == Len(st.heap) + 1
        n == Len(st.heap) + 2
    IN [heap  |-> st.heap \o << <<>>, <<>> >>,
        areas |-> Append(st.areas, [positive |-> p, negative |-> n]),
        ret   |-> Len(st.areas) + 1]

\* variant: adding regions also clears the holes
addFillingHoles(st, t, gridsToAdd) ==
    IF Len(gridsToAdd) = 0 THEN [heap |-> st.heap, areas |-> st.areas, ret |-> t]
    ELSE LET allPositive == st.heap[st.areas[t].positive] \o gridsToAdd
         IN [heap  |-> Append(Append(st.heap, mergeGrids(allPositive)), <<>>),
             areas |-> [st.areas EXCEPT ![t].positive = Len(st.heap) + 1,
                                        ![t].negative = Len(st.heap) + 2],
             ret   |-> t]

\* variant: the positive list is replaced by the merged new grids
addReplacing(st, t, gridsToAdd) ==
    IF Len(gridsToAdd) = 0 THEN [heap |-> st.heap, areas |-> st.areas, ret |-> t]
    ELSE [heap  |-> Append(st.heap, mergeGrids(gridsToAdd)),
          areas |-> [st.areas EXCEPT ![t].positive = Len(st.heap) + 1],
          ret   |-> t]

\* variant: the merged grids are written into the array this.positive refers to
addInPlace(st, t, gridsToAdd) ==
    IF Len(gridsToAdd) = 0 THEN [heap |-> st.heap, areas |-> st.areas, ret |-> t]
    ELSE LET allPositive == st.heap[st.areas[t].positive] \o gridsToAdd
         IN [heap  |-> [st.heap EXCEPT ![st.areas[t].positive] = mergeGrids(allPositive)],
             areas |-> st.areas,
             ret   |-> t]

\* Area.add (Area.ts:50-57): this.positive is assigned a new array
add(st, t, gridsToAdd) ==
    IF Len(gridsToAdd) = 0 THEN [heap |-> st.heap, areas |-> st.areas, ret |-> t]
    ELSE LET allPositive == st.heap[st.areas[t].positive] \o gridsToAdd
         IN [heap  |-> Append(st.heap, mergeGrids(allPositive)),
             areas |-> [st.areas EXCEPT ![t].positive = Len(st.heap) + 1],
             ret   |-> t]

\* Area.subtract (Area.ts:69-76)
subtract(st, t, gridsToSubtract) ==
    IF Len(gridsToSubtract) = 0 THEN [heap |-> st.heap, areas |-> st.areas, ret |-> t]
    ELSE LET allNegative == st.heap[st.areas[t].negative] \o gridsToSubtract
         IN [heap  |-> Append(st.heap, mergeGrids(allNegative)),
             areas |-> [st.areas EXCEPT ![t].negative = Len(st.heap) + 1],
             ret   |-> t]

\* Area.constructor (Area.ts:34-38)
constructor(st, initialGrids) ==
    LET created == newArea(st)
    IN IF Len(initialGrids) > 0
       THEN add(created, created.ret, initialGrids)
       ELSE created

\* Area.isOccupied (Area.ts:85-96)
isOccupied(st, t, x, y) ==
    LET isInPositive == isPointInGrids(x, y, st.heap[st.areas[t].positive])
        isInNegative == isPointInGrids(x, y, st.heap[st.areas[t].negative])
    IN IF ~isInPositive THEN FALSE ELSE ~isInNegative

\* Area.getPositiveRegions (Area.ts:104-106): the reference itself
getPositiveRegions(st, t) == st.areas[t].positive

\* variant: the negative channel of b is left out
unionDropNegative(st, a, b) ==
    LET created == newArea(st)
        r == created.ret
        pos == mergeGrids(st.heap[st.areas[a].positive] \o st.heap[st.areas[b].positive])
        neg == mergeGrids(st.heap[st.areas[a].negative])
        h == Len(created.heap)
    IN [heap  |-> created.heap \o <<pos, neg>>,
        areas |-> [created.areas EXCEPT ![r] = [positive |-> h + 1, negative |-> h + 2]],
        ret   |-> r]

\* variant: b is merged into a and a is returned
unionInPlace(st, a, b) ==
    LET pos == mergeGrids(st.heap[st.areas[a].positive] \o st.heap[st.areas[b].positive])
        neg == mergeGrids(st.heap[st.areas[a].negative] \o st.heap[st.areas[b].negative])
        h == Len(st.heap)
    IN [heap  |-> st.heap \o <<pos, neg>>,
        areas |-> [st.areas EXCEPT ![a] = [positive |-> h + 1, negative |-> h + 2]],
        ret   |-> a]

\* Area.union (Area.ts:115-122)
union(st, a, b) ==
    LET created == newArea(st)
        r == created.ret
        pos == mergeGrids(st.heap[st.areas[a].positive] \o st.heap[st.areas[b].positive])
        neg == mergeGrids(st.heap[st.areas[a].negative] \o st.heap[st.areas[b].negative])
        h == Len(created.heap)
    IN [heap  |-> created.heap \o <<pos, neg>>,
        areas |-> [created.areas EXCEPT ![r] = [positive |-> h + 1, negative |-> h + 2]],
        ret   |-> r]

(***************************************************************************)
(* AStarPathfinder (Area.ts:215-414)                                       *)
(*                                                                         *)
(* A node is an object with identity: `nodes` is the arena of the nodes a  *)
(* call has put on its open list, a node reference is an index into it and *)
(* 0 is null.  The neighbour objects that are skipped are never referenced *)
(* again and are not kept.  A call of findPath is a frame holding its      *)
(* arguments and its locals; one loop iteration is one step.               *)
(***************************************************************************)
\* new AStarNode(x, y, parent) (Area.ts:230-246)
AStarNode(x, y, parent) ==
    [x |-> x, y |-> y, g |-> 0, h |-> 0, f |-> 0, parent |-> parent]

\* a Point {x, y}
Point(x, y) == [x |-> x, y |-> y]

\* the return values of findPath: null, or a list of points
Null == [null |-> TRUE, path |-> <<>>]

Path(points) == [null |-> FALSE, path |-> points]

\* the frame of a call that has not returned yet holds no value
NotReturned == [null |-> FALSE, path |-> <<>>]

\* the key `${x},${y}` of the closed set: distinct cells have distinct keys
nodeId(x, y) == <<x, y>>

Abs(n) == IF n < 0 THEN -n ELSE n

\* getHeuristic (Area.ts:366)
getHeuristic(a, b) == Abs(a.x - b.x) + Abs(a.y - b.y)

\* variant: the neighbours are created without a parent
getNeighborsUnlinked(nodes, node) ==
    LET x == nodes[node].x
        y == nodes[node].y
    IN <<AStarNode(x, y - 1, 0), AStarNode(x, y + 1, 0),
         AStarNode(x - 1, y, 0), AStarNode(x + 1, y, 0)>>

\* variant: the four diagonal neighbours
getNeighborsDiagonal(nodes, node) ==
    LET x == nodes[node].x
        y == nodes[node].y
    IN <<AStarNode(x - 1, y - 1, node), AStarNode(x + 1, y + 1, node),
         AStarNode(x - 1, y + 1, node), AStarNode(x + 1, y - 1, node)>>

\* getNeighbors (Area.ts:354-361): North, South, West, East
getNeighbors(nodes, node) ==
    LET x == nodes[node].x
        y == nodes[node].y
    IN <<AStarNode(x, y - 1, node), AStarNode(x, y + 1, node),
         AStarNode(x - 1, y, node), AStarNode(x + 1, y, node)>>

\* the while loop of reconstructPath (Area.ts:375-378)
RECURSIVE followParents(_, _, _)
followParents(nodes, current, path) ==
    IF current = 0 THEN path
    ELSE followParents(nodes, nodes[current].parent,
                       Append(path, Point(nodes[current].x, nodes[current].y)))

\* Array.prototype.reverse
reverse(path) == [i \in 1..Len(path) |-> path[Len(path) + 1 - i]]

\* variant: the list is returned from the end node back to the start node
reconstructPathNoReverse(nodes, endNode) == followParents(nodes, endNode, <<>>)

\* reconstructPath (Area.ts:372-380)
reconstructPath(nodes, endNode) == reverse(followParents(nodes, endNode, <<>>))

\* the for loop of simplifyPath (Area.ts:394-408)
RECURSIVE simplifyLoop(_, _, _)
simplifyLoop(path, i, simplifiedPath) ==
    IF i > Len(path) - 1 THEN simplifiedPath
    ELSE LET prev == path[i - 1]
             current == path[i]
             next == path[i + 1]
             dir1x == current.x - prev.x
             dir1y == current.y - prev.y
             dir2x == next.x - current.x
             dir2y == next.y - current.y
         IN simplifyLoop(path, i + 1,
                         IF dir1x # dir2x \/ dir1y # dir2y
                         THEN Append(simplifiedPath, current)
                         ELSE simplifiedPath)

\* variant: every cell of the route is kept
simplifyPathKeepAll(path) == path

\* simplifyPath (Area.ts:387-413)
simplifyPath(path) ==
    IF Len(path) < 3 THEN path
    ELSE Append(simplifyLoop(path, 2, <<path[1]>>), path[Len(path)])

\* variant: the last of the open nodes with the lowest f is taken
RECURSIVE lowestIndexLast(_, _, _, _)
lowestIndexLast(nodes, openList, i, lowestIndex) ==
    IF i > Len(openList) THEN lowestIndex
    ELSE lowestIndexLast(nodes, openList, i + 1,
                         IF nodes[openList[i]].f <= nodes[openList[lowestIndex]].f
                         THEN i ELSE lowestIndex)

\* the scan for the node with the lowest f (Area.ts:289-295)
RECURSIVE lowestIndexFrom(_, _, _, _)
lowestIndexFrom(nodes, openList, i, lowestIndex) ==
    IF i > Len(openList) THEN lowestIndex
    ELSE lowestIndexFrom(nodes, openList, i + 1,
                         IF nodes[openList[i]].f < nodes[openList[lowestIndex]].f
                         THEN i ELSE lowestIndex)

\* openList.splice(lowestIndex, 1)
splice(openList, lowestIndex) ==
    [i \in 1..(Len(openList) - 1) |->
        IF i < lowestIndex THEN openList[i] ELSE openList[i + 1]]

\* openList.find(node => node.x === x && node.y === y): 0 when there is none
RECURSIVE findInOpenList(_, _, _, _, _)
findInOpenList(nodes, openList, x, y, i) ==
    IF i > Len(openList) THEN 0
    ELSE IF nodes[openList[i]].x = x /\ nodes[openList[i]].y = y THEN openList[i]
    ELSE findInOpenList(nodes, openList, x, y, i + 1)

\* variant: no cell counts as closed
closedSetNone(cs, c) == {}

\* variant: one closed set for all the calls of the pathfinder
closedSetShared(cs, c) == UNION {cs[k].closedSet : k \in 1..Len(cs)}

\* the closed set of call c, a local of that call (Area.ts:277)
closedSetOf(cs, c) == cs[c].closedSet

\* variant: only the start cell is tested
blockedStartOnly(st, pf, start, end) ==
    isOccupied(st, pf.occupiedArea, start.x, start.y)

\* the test of the two endpoints (Area.ts:279-281)
blockedEndpoint(st, pf, start, end) ==
    \/ isOccupied(st, pf.occupiedArea, start.x, start.y)
    \/ isOccupied(st, pf.occupiedArea, end.x, end.y)

\* new AStarPathfinder(occupiedArea) (Area.ts:260-262)
newPathfinder(occupiedArea) == [occupiedArea |-> occupiedArea]

\* findPath up to its loop (Area.ts:272-286)
enterFrame(st, pf, start, end, turnPenalty) ==
    LET startNode == AStarNode(start.x, start.y, 0)
        endNode == AStarNode(end.x, end.y, 0)
        h == getHeuristic(startNode, endNode)
        frame == [start |-> start, end |-> end, turnPenalty |-> turnPenalty,
                  endNode |-> endNode, nodes |-> <<startNode>>,
                  openList |-> <<>>, closedSet |-> {},
                  pc |-> "loop", ret |-> NotReturned]
    IN IF blockedEndpoint(st, pf, start, end)
       THEN [frame EXCEPT !.pc = "returned", !.ret = Null]
       ELSE [frame EXCEPT !.nodes = <<[startNode EXCEPT !.h = h, !.f = h]>>,
                          !.openList = <<1>>]

\* variant: a relaxed node keeps the parent it had
visitKeepParent(st, pf, cs, c, fr, currentNode, neighbor) ==
    LET cur == fr.nodes[currentNode]
        closedSet == closedSetOf([cs EXCEPT ![c] = fr], c)
        hasParent == cur.parent # 0
        prevDx == cur.x - fr.nodes[cur.parent].x
        prevDy == cur.y - fr.nodes[cur.parent].y
        currentDx == neighbor.x - cur.x
        currentDy == neighbor.y - cur.y
        currentTurnPenalty ==
            IF hasParent /\ (prevDx # currentDx \/ prevDy # currentDy)
            THEN fr.turnPenalty ELSE 0
        tentativeG == cur.g + 1 + currentTurnPenalty
        existingNode == findInOpenList(fr.nodes, fr.openList, neighbor.x, neighbor.y, 1)
        h == getHeuristic(neighbor, fr.endNode)
    IN IF \/ nodeId(neighbor.x, neighbor.y) \in closedSet
          \/ isOccupied(st, pf.occupiedArea, neighbor.x, neighbor.y)
       THEN fr
       ELSE IF existingNode # 0
       THEN IF tentativeG < fr.nodes[existingNode].g
            THEN [fr EXCEPT !.nodes[existingNode] =
                     [@ EXCEPT !.g = tentativeG,
                               !.f = tentativeG + fr.nodes[existingNode].h]]
            ELSE fr
       ELSE [fr EXCEPT !.nodes = Append(@, [neighbor EXCEPT !.g = tentativeG, !.h = h,
                                                       !.f = tentativeG + h]),
                       !.openList = Append(@, Len(fr.nodes) + 1)]

\* the body of the loop over the neighbours for one neighbour
\* (Area.ts:308-345); fr is the frame of call c so far
visit(st, pf, cs, c, fr, currentNode, neighbor) ==
    LET cur == fr.nodes[currentNode]
        closedSet == closedSetOf([cs EXCEPT ![c] = fr], c)
        hasParent == cur.parent # 0
        prevDx == cur.x - fr.nodes[cur.parent].x
        prevDy == cur.y - fr.nodes[cur.parent].y
        currentDx == neighbor.x - cur.x
        currentDy == neighbor.y - cur.y
        currentTurnPenalty ==
            IF hasParent /\ (prevDx # currentDx \/ prevDy # currentDy)
            THEN fr.turnPenalty ELSE 0
        tentativeG == cur.g + 1 + currentTurnPenalty
        existingNode == findInOpenList(fr.nodes, fr.openList, neighbor.x, neighbor.y, 1)
        h == getHeuristic(neighbor, fr.endNode)
    IN IF \/ nodeId(neighbor.x, neighbor.y) \in closedSet
          \/ isOccupied(st, pf.occupiedArea, neighbor.x, neighbor.y)
       THEN fr
       ELSE IF existingNode # 0
       THEN IF tentativeG < fr.nodes[existingNode].g
            THEN [fr EXCEPT !.nodes[existingNode] =
                     [@ EXCEPT !.g = tentativeG,
                               !.f = tentativeG + fr.nodes[existingNode].h,
                               !.parent = currentNode]]
            ELSE fr
       ELSE [fr EXCEPT !.nodes = Append(@, [neighbor EXCEPT !.g = tentativeG, !.h = h,
                                                       !.f = tentativeG + h]),
                       !.openList = Append(@, Len(fr.nodes) + 1)]

\* for (const neighbor of this.getNeighbors(currentNode)) (Area.ts:308)
RECURSIVE visitAll(_, _, _, _, _, _, _, _)
visitAll(st, pf, cs, c, fr, currentNode, neighbors, i) ==
    IF i > Len(neighbors) THEN fr
    ELSE visitAll(st, pf, cs, c,
                  visit(st, pf, cs, c, fr, currentNode, neighbors[i]),
                  currentNode, neighbors, i + 1)

\* one pass through `while (openList.length > 0)` for call c, down to the
\* return statements (Area.ts:288-348): the frame after it
iterateFrame(st, pf, cs, c) ==
    LET fr == cs[c]
        lowestIndex == lowestIndexFrom(fr.nodes, fr.openList, 2, 1)
        currentNode == fr.openList[lowestIndex]
        cur == fr.nodes[currentNode]
        taken == [fr EXCEPT !.openList = splice(@, lowestIndex),
                            !.closedSet = @ \cup {nodeId(cur.x, cur.y)}]
    IN IF Len(fr.openList) = 0
       THEN [fr EXCEPT !.pc = "returned", !.ret = Null]
       ELSE IF cur.x = fr.endNode.x /\ cur.y = fr.endNode.y
       THEN [fr EXCEPT !.pc = "returned",
                       !.ret = Path(simplifyPath(reconstructPath(fr.nodes, currentNode)))]
       ELSE visitAll(st, pf, cs, c, taken, currentNode,
                     getNeighbors(fr.nodes, currentNode), 1)

\* variant: the cell taken from the open list is added to the occupied Area
iterateMarking(st, pf, cs, c) ==
    LET fr == cs[c]
        cur == fr.nodes[fr.openList[lowestIndexFrom(fr.nodes, fr.openList, 2, 1)]]
        marked == IF fr.pc = "loop" /\ Len(fr.openList) > 0
                  THEN add(st, pf.occupiedArea, <<Grid(cur.x, cur.y, 0, 0)>>)
                  ELSE [heap |-> st.heap, areas |-> st.areas, ret |-> 0]
    IN [heap |-> marked.heap, areas |-> marked.areas,
        frame |-> iterateFrame(st, pf, cs, c)]

\* one pass through the loop of call c: the store is only read
iterate(st, pf, cs, c) ==
    [heap |-> st.heap, areas |-> st.areas, frame |-> iterateFrame(st, pf, cs, c)]

\* findPath from its first statement to the loop: the store is only read
enter(st, pf, start, end, turnPenalty) ==
    [heap |-> st.heap, areas |-> st.areas,
     frame |-> enterFrame(st, pf, start, end, turnPenalty)]

\* a call of findPath run from its first statement to its return, with no
\* other call in flight
RECURSIVE runLoop(_, _, _)
runLoop(st, pf, fr) ==
    IF fr.pc = "returned" \/ Cardinality(fr.closedSet) >= MaxExpand THEN fr
    ELSE runLoop(st, pf, iterate(st, pf, <<fr>>, 1).frame)

\* findPath (Area.ts:272-349)
findPath(st, pf, start, end, turnPenalty) ==
    runLoop(st, pf, enter(st, pf, start, end, turnPenalty).frame)

(***************************************************************************)
(* The rasterized AStarPathfinder (unnamed/part_000). Its obstacles are a  *)
(* set of occupied pixels; getNeighbors, getHeuristic, reconstructPath and *)
(* simplifyPath read as those of the Area-backed class, whose operators    *)
(* above are used for them.                                                *)
(***************************************************************************)
\* variant: the pixels of the right and bottom edges are rasterized too
pixelsOfInclusive(grid, gridSize) ==
    LET startX == grid.x * gridSize
        startY == grid.y * gridSize
        pixelWidth == dxOf(grid) * gridSize
        pixelHeight == dyOf(grid) * gridSize
    IN {nodeId(px, py) : px \in startX..(startX + pixelWidth),
                         py \in startY..(startY + pixelHeight)}

\* the body of the loop over the obstacles (part_000:149-158): the pixels
\* of one grid
pixelsOf(grid, gridSize) ==
    LET startX == grid.x * gridSize
        startY == grid.y * gridSize
        pixelWidth == dxOf(grid) * gridSize
        pixelHeight == dyOf(grid) * gridSize
    IN {nodeId(px, py) : px \in startX..(startX + pixelWidth - 1),
                         py \in startY..(startY + pixelHeight - 1)}

\* initializeOccupiedPixels (part_000:147-160)
initializeOccupiedPixels(obstacles, gridSize) ==
    UNION {pixelsOf(obstacles[k], gridSize) : k \in 1..Len(obstacles)}

\* new AStarPathfinder(obstacles, gridSize) (part_000:58-62)
newRasterPathfinder(obstacles, gridSize) ==
    [occupiedPixels |-> initializeOccupiedPixels(obstacles, gridSize),
     gridSize |-> gridSize]

\* isOccupied (part_000:165-167)
rasterIsOccupied(pf, x, y) == nodeId(x, y) \in pf.occupiedPixels

\* findPath up to its loop (part_000:71-85)
rasterEnterFrame(pf, start, end, turnPenalty) ==
    LET startNode == AStarNode(start.x, start.y, 0)
        endNode == AStarNode(end.x, end.y, 0)
        h == getHeuristic(startNode, endNode)
        frame == [start |-> start, end |-> end, turnPenalty |-> turnPenalty,
                  endNode |-> endNode, nodes |-> <<startNode>>,
                  openList |-> <<>>, closedSet |-> {},
                  pc |-> "loop", ret |-> NotReturned]
    IN IF \/ rasterIsOccupied(pf, start.x, start.y)
          \/ rasterIsOccupied(pf, end.x, end.y)
       THEN [frame EXCEPT !.pc = "returned", !.ret = Null]
       ELSE [frame EXCEPT !.nodes = <<[startNode EXCEPT !.h = h, !.f = h]>>,
                          !.openList = <<1>>]

\* the body of the loop over the neighbours for one neighbour
\* (part_000:105-138)
rasterVisit(pf, fr, currentNode, neighbor) ==
    LET cur == fr.nodes[currentNode]
        hasParent == cur.parent # 0
        prevDx == cur.x - fr.nodes[cur.parent].x
        prevDy == cur.y - fr.nodes[cur.parent].y
        currentDx == neighbor.x - cur.x
        currentDy == neighbor.y - cur.y
        currentTurnPenalty ==
            IF hasParent /\ (prevDx # currentDx \/ prevDy # currentDy)
            THEN fr.turnPenalty ELSE 0
        tentativeG == cur.g + 1 + currentTurnPenalty
        existingNode == findInOpenList(fr.nodes, fr.openList, neighbor.x, neighbor.y, 1)
        h == getHeuristic(neighbor, fr.endNode)
    IN IF \/ nodeId(neighbor.x, neighbor.y) \in fr.closedSet
          \/ rasterIsOccupied(pf, neighbor.x, neighbor.y)
       THEN fr
       ELSE IF existingNode # 0
       THEN IF tentativeG < fr.nodes[existingNode].g
            THEN [fr EXCEPT !.nodes[existingNode] =
                     [@ EXCEPT !.g = tentativeG,
                               !.f = tentativeG + fr.nodes[existingNode].h,
                               !.parent = currentNode]]
            ELSE fr
       ELSE [fr EXCEPT !.nodes = Append(@, [neighbor EXCEPT !.g = tentativeG, !.h = h,
                                                       !.f = tentativeG + h]),
                       !.openList = Append(@, Len(fr.nodes) + 1)]

\* for (const neighbor of this.getNeighbors(currentNode)) (part_000:105)
RECURSIVE rasterVisitAll(_, _, _, _, _)
rasterVisitAll(pf, fr, currentNode, neighbors, i) ==
    IF i > Len(neighbors) THEN fr
    ELSE rasterVisitAll(pf, rasterVisit(pf, fr, currentNode, neighbors[i]),
                        currentNode, neighbors, i + 1)

\* one pass through `while (openList.length > 0)`, down to the return
\* statements (part_000:87-141)
rasterIterate(pf, fr) ==
    LET lowestIndex == lowestIndexFrom(fr.nodes, fr.openList, 2, 1)
        currentNode == fr.openList[lowestIndex]
        cur == fr.nodes[currentNode]
        taken == [fr EXCEPT !.openList = splice(@, lowestIndex),
                            !.closedSet = @ \cup {nodeId(cur.x, cur.y)}]
    IN IF Len(fr.openList) = 0
       THEN [fr EXCEPT !.pc = "returned", !.ret = Null]
       ELSE IF cur.x = fr.endNode.x /\ cur.y = fr.endNode.y
       THEN [fr EXCEPT !.pc = "returned",
                       !.ret = Path(simplifyPath(reconstructPath(fr.nodes, currentNode)))]
       ELSE rasterVisitAll(pf, taken, currentNode,
                           getNeighbors(fr.nodes, currentNode), 1)

\* the loop run to its return, or until MaxExpand cells are closed
RECURSIVE rasterRunLoop(_, _)
rasterRunLoop(pf, fr) ==
    IF fr.pc = "returned" \/ Cardinality(fr.closedSet) >= MaxExpand THEN fr
    ELSE rasterRunLoop(pf, rasterIterate(pf, fr))

\* findPath (part_000:71-142)
rasterFindPath(pf, start, end, turnPenalty) ==
    rasterRunLoop(pf, rasterEnterFrame(pf, start, end, turnPenalty))

(***************************************************************************)
(* Shape.isOccupied (shape/Shape.ts:184-208), over the shape's list of     *)
(* occupied grids                                                          *)
(***************************************************************************)
shapeIsOccupied(x, y, occupiedArea) ==
    \E k \in 1..Len(occupiedArea) :
        LET grid == occupiedArea[k]
        IN IF "dx" \notin DOMAIN grid \/ "dy" \notin DOMAIN grid
           THEN grid.x = x /\ grid.y = y
           ELSE /\ x >= grid.x /\ x < grid.x + grid.dx
                /\ y >= grid.y /\ y < grid.y + grid.dy

(***************************************************************************)
(* Polyline.calculateOccupiedArea (shape/Polyline.tsx:77-122). Pixel       *)
(* coordinates are held doubled, so that the centre of a cell, gridSize/2  *)
(* off its corner, is a whole number; a sample position is the exact       *)
(* quotient (p1 * steps + j * d) / steps, which the code's floating-point  *)
(* arithmetic yields without rounding on axis-aligned segments between     *)
(* whole grid points.                                                      *)
(***************************************************************************)
\* toPixelCenter (shape/Shape.ts:173-175), doubled
toPixelCenter(gridUnit, gridSize) == 2 * (gridUnit * gridSize) + gridSize

\* Math.ceil(a / b) for a >= 0 and b > 0
ceilDiv(a, b) == (a + b - 1) \div b

\* Math.floor((p1 + j * d / steps) / gridSize), p1 and d doubled
cellAt(p1, d, steps, j, gridSize) == (p1 * steps + j * d) \div (2 * gridSize * steps)

\* occupiedCells.add(`${gridX},${gridY}`): a Set keeps the order of first
\* insertion
occupiedCellsAdd(occupiedCells, cell) ==
    IF \E k \in 1..Len(occupiedCells) : occupiedCells[k] = cell
    THEN occupiedCells
    ELSE Append(occupiedCells, cell)

\* for (let j = 0; j <= steps; j++) (Polyline.tsx:107-115)
RECURSIVE sampleLoop(_, _, _, _, _, _, _)
sampleLoop(occupiedCells, p1, dx, dy, steps, j, gridSize) ==
    IF j > steps THEN occupiedCells
    ELSE sampleLoop(occupiedCellsAdd(occupiedCells,
                                     <<cellAt(p1.x, dx, steps, j, gridSize),
                                       cellAt(p1.y, dy, steps, j, gridSize)>>),
                    p1, dx, dy, steps, j + 1, gridSize)

\* for (let i = 0; i < this.points.length - 1; i++) (Polyline.tsx:84-116)
RECURSIVE segmentLoop(_, _, _, _)
segmentLoop(points, i, occupiedCells, gridSize) ==
    IF i > Len(points) - 1 THEN occupiedCells
    ELSE LET p1 == Point(toPixelCenter(points[i].x, gridSize),
                         toPixelCenter(points[i].y, gridSize))
             p2 == Point(toPixelCenter(points[i + 1].x, gridSize),
                         toPixelCenter(points[i + 1].y, gridSize))
             dx == p2.x - p1.x
             dy == p2.y - p1.y
             steps == ceilDiv(Max(Abs(dx), Abs(dy)), 2 * gridSize) * 2
         IN segmentLoop(points, i + 1,
                        IF steps = 0
                        THEN occupiedCellsAdd(occupiedCells,
                                              <<p1.x \div (2 * gridSize),
                                                p1.y \div (2 * gridSize)>>)
                        ELSE sampleLoop(occupiedCells, p1, dx, dy, steps, 0, gridSize),
                        gridSize)

\* calculateOccupiedArea: the cells as grids {x, y}, in order of insertion
calculateOccupiedArea(points, gridSize) ==
    IF Len(points) < 2 THEN <<>>
    ELSE LET occupiedCells == segmentLoop(points, 1, <<>>, gridSize)
         IN [k \in 1..Len(occupiedCells) |->
                Grid(occupiedCells[k][1], occupiedCells[k][2], 0, 0)]

(***************************************************************************)
(* State                                                                   *)
(*   heap, areas  the store                                                *)
(*   raw[t]       history: every region ever added to (pos) and subtracted *)
(*                from (neg) Area t, for a union those of both operands    *)
(*   snap         the reference a caller holds from getPositiveRegions and *)
(*                what the array held when it was returned                 *)
(*   lastOp       history: the last call, its operands, its result         *)
(*   nops         number of calls made                                     *)
(*   pathfinder   the AStarPathfinder object: the Area it is bound to      *)
(*   calls        the frames of the findPath calls made, in call order     *)
(***************************************************************************)
store == [heap |-> heap, areas |-> areas]

emptyStore == [heap |-> <<>>, areas |-> <<>>]

NoSnap == [ref |-> 0, of |-> 0, seen |-> <<>>]

\* no AStarPathfinder has been constructed
NoPathfinder == [occupiedArea |-> 0]

Op(op, t, b, ret, arg) == [op |-> op, t |-> t, b |-> b, ret |-> ret, arg |-> arg]

\* the squares on the diagonal of a window of side n; a side of 1 is
\* written without dx and dy
Squares(n) ==
    {Grid(c[1], c[1], IF c[2] > 1 THEN c[2] ELSE 0, IF c[2] > 1 THEN c[2] ELSE 0) :
        c \in {d \in (0..(n - 1)) \X (1..n) : d[1] + d[2] <= n}}

\* the rectangles inside a window of side n
Rectangles(n) ==
    {Grid(c[1], c[2], IF c[3] > 1 THEN c[3] ELSE 0, IF c[4] > 1 THEN c[4] ELSE 0) :
        c \in {d \in (0..(n - 1)) \X (0..(n - 1)) \X (1..n) \X (1..n) :
                  d[1] + d[3] <= n /\ d[2] + d[4] <= n}}

\* the lists the callers pass: Spec
AreaInputs == {<<>>} \cup {<<g>> : g \in Squares(Win)}

\* the lists the callers pass: SpecHole
HoleInputs == {<<>>} \cup {<<g>> : g \in Squares(HoleWin)}

\* the lists the callers pass: SpecMerge
MergeInputs == UNION {[1..n -> Rectangles(MergeWin)] : n \in 0..MaxRaw}

\* the cells a property looks at
Window == (0..Win) \X (0..Win)

HoleWindow == (0..HoleWin) \X (0..HoleWin)

MergeWindow == (0..MergeWin) \X (0..MergeWin)

\* the square of side s at the origin; a side of 1 is written without dx, dy
Square(x, y, s) == Grid(x, y, IF s > 1 THEN s ELSE 0, IF s > 1 THEN s ELSE 0)

\* the obstacles of SpecPath: nothing, or a square at the origin
PathSolids == {<<>>} \cup {<<Square(0, 0, s)>> : s \in 1..(PathWin + 2)}

\* what is subtracted from a square: nothing, its interior (a closed ring
\* remains), or its interior and the cell (1, 0) of its top wall (a ring
\* with one gap remains)
PathHoles(solid) ==
    IF Len(solid) = 0 \/ dxOf(solid[1]) < 3 THEN {<<>>}
    ELSE LET interior == Square(1, 1, dxOf(solid[1]) - 2)
         IN {<<>>, <<interior>>, <<interior, Square(1, 0, 1)>>}

\* the endpoints the callers pass: SpecPath
PathPoints == {Point(x, y) : x \in -1..PathWin, y \in -1..PathWin}

\* the turn penalties the callers pass
Penalties == {0, DefaultTurnPenalty}

\* the obstacle of SpecConc: the cell (0, 0), diagonally between the two
\* endpoints
ConcSolids == {<<Square(0, 0, 1)>>}

\* the endpoints the callers pass: SpecConc
ConcPoints == {Point(-1, 0), Point(0, -1)}

\* the grid sizes of the Polylines: one pixel a cell, and the Scene's 15
GridSizes == {1, 2, 15}

\* const a = new Area(initialGrids); const b = new Area();
Init ==
    \E initialGrids \in AreaInputs :
        LET s1 == constructor(emptyStore, initialGrids)
            s2 == constructor(s1, <<>>)
        IN /\ heap = s2.heap
           /\ areas = s2.areas
           /\ raw = <<[pos |-> initialGrids, neg |-> <<>>], [pos |-> <<>>, neg |-> <<>>]>>
           /\ snap = NoSnap
           /\ lastOp = Op("new", 0, 0, 0, <<>>)
           /\ nops = 0
           /\ pathfinder = NoPathfinder
           /\ calls = <<>>

\* const a = new Area(initialGrids);
InitHole ==
    \E initialGrids \in HoleInputs :
        LET s1 == constructor(emptyStore, initialGrids)
        IN /\ heap = s1.heap
           /\ areas = s1.areas
           /\ raw = <<[pos |-> initialGrids, neg |-> <<>>]>>
           /\ snap = NoSnap
           /\ lastOp = Op("new", 0, 0, 0, <<>>)
           /\ nops = 0
           /\ pathfinder = NoPathfinder
           /\ calls = <<>>

\* const a = new Area(initialGrids);
InitMerge ==
    \E initialGrids \in MergeInputs :
        LET s1 == constructor(emptyStore, initialGrids)
        IN /\ heap = s1.heap
           /\ areas = s1.areas
           /\ raw = <<[pos |-> initialGrids, neg |-> <<>>]>>
           /\ snap = NoSnap
           /\ lastOp = Op("new", 0, 0, 1, initialGrids)
           /\ nops = 0
           /\ pathfinder = NoPathfinder
           /\ calls = <<>>

\* const occupied = new Area(solid).subtract(holes);
\* const pathfinder = new AStarPathfinder(occupied);
InitPath ==
    \E solid \in PathSolids :
        \E holes \in PathHoles(solid) :
            LET s1 == constructor(emptyStore, solid)
                s2 == subtract(s1, s1.ret, holes)
            IN /\ heap = s2.heap
               /\ areas = s2.areas
               /\ raw = <<[pos |-> solid, neg |-> holes]>>
               /\ snap = NoSnap
               /\ lastOp = Op("new", 0, 0, s2.ret, solid)
               /\ nops = 0
               /\ pathfinder = newPathfinder(s2.ret)
               /\ calls = <<>>

\* const pathfinder = new AStarPathfinder(new Area(solid));
InitConc ==
    \E solid \in ConcSolids :
        LET s1 == constructor(emptyStore, solid)
        IN /\ heap = s1.heap
           /\ areas = s1.areas
           /\ raw = <<[pos |-> solid, neg |-> <<>>]>>
           /\ snap = NoSnap
           /\ lastOp = Op("new", 0, 0, s1.ret, solid)
           /\ nops = 0
           /\ pathfinder = newPathfinder(s1.ret)
           /\ calls = <<>>

\* areas[t].add(gridsToAdd)
Add(t, gridsToAdd) ==
    LET res == add(store, t, gridsToAdd)
    IN /\ heap' = res.heap
       /\ areas' = res.areas
       /\ raw' = [raw EXCEPT ![t].pos = @ \o gridsToAdd]
       /\ lastOp' = Op("add", t, 0, res.ret, gridsToAdd)
       /\ nops' = nops + 1
       /\ UNCHANGED <<snap, pathfinder, calls>>

\* areas[t].subtract(gridsToSubtract)
Subtract(t, gridsToSubtract) ==
    LET res == subtract(store, t, gridsToSubtract)
    IN /\ heap' = res.heap
       /\ areas' = res.areas
       /\ raw' = [raw EXCEPT ![t].neg = @ \o gridsToSubtract]
       /\ lastOp' = Op("subtract", t, 0, res.ret, gridsToSubtract)
       /\ nops' = nops + 1
       /\ UNCHANGED <<snap, pathfinder, calls>>

\* Area.union(areas[a], areas[b])
Union(a, b) ==
    LET res == union(store, a, b)
    IN /\ heap' = res.heap
       /\ areas' = res.areas
       /\ raw' = [t \in 1..Len(res.areas) |->
                    IF t > Len(raw)
                    THEN [pos |-> raw[a].pos \o raw[b].pos,
                          neg |-> raw[a].neg \o raw[b].neg]
                    ELSE raw[t]]
       /\ lastOp' = Op("union", a, b, res.ret, <<>>)
       /\ nops' = nops + 1
       /\ UNCHANGED <<snap, pathfinder, calls>>

\* const held = areas[t].getPositiveRegions()
GetPositiveRegions(t) ==
    LET ref == getPositiveRegions(store, t)
    IN /\ snap' = [ref |-> ref, of |-> t, seen |-> heap[ref]]
       /\ lastOp' = Op("get", t, 0, ref, <<>>)
       /\ nops' = nops + 1
       /\ UNCHANGED <<heap, areas, raw, pathfinder, calls>>

\* new Area(areas[t].getPositiveRegions())
Remerge(t) ==
    LET initialGrids == heap[getPositiveRegions(store, t)]
        res == constructor(store, initialGrids)
    IN /\ heap' = res.heap
       /\ areas' = res.areas
       /\ raw' = Append(raw, [pos |-> initialGrids, neg |-> <<>>])
       /\ lastOp' = Op("remerge", t, 0, res.ret, initialGrids)
       /\ nops' = nops + 1
       /\ UNCHANGED <<snap, pathfinder, calls>>

\* pathfinder.findPath(start, end, turnPenalty) is called and runs up to its
\* loop
FindPath(start, end, turnPenalty) ==
    LET res == enter(store, pathfinder, start, end, turnPenalty)
    IN /\ heap' = res.heap
       /\ areas' = res.areas
       /\ calls' = Append(calls, res.frame)
       /\ UNCHANGED <<raw, snap, lastOp, nops, pathfinder>>

\* call c makes one pass through its loop, or leaves it and returns
Iterate(c) ==
    /\ calls[c].pc = "loop"
    /\ LET res == iterate(store, pathfinder, calls, c)
       IN /\ heap' = res.heap
          /\ areas' = res.areas
          /\ calls' = [calls EXCEPT ![c] = res.frame]
    /\ UNCHANGED <<raw, snap, lastOp, nops, pathfinder>>

\* new Polyline({points, gridSize}) over the path call c returned
\* (Polyline.tsx:37-52): the constructor creates the Polyline's own Area
\* from the cells calculateOccupiedArea returns; no other Area is touched
NewPolyline(c, gridSize) ==
    /\ calls[c].pc = "returned"
    /\ ~calls[c].ret.null
    /\ lastOp.op # "polyline"
    /\ LET cells == calculateOccupiedArea(calls[c].ret.path, gridSize)
           res == constructor(store, cells)
       IN /\ heap' = res.heap
          /\ areas' = res.areas
          /\ raw' = Append(raw, [pos |-> cells, neg |-> <<>>])
          /\ lastOp' = Op("polyline", res.ret, c, res.ret, cells)
          /\ nops' = nops + 1
    /\ UNCHANGED <<snap, pathfinder, calls>>

\* two Areas: add, subtract, union, getPositiveRegions in any order
Next ==
    \/ \E t \in 1..Len(areas), gs \in AreaInputs : nops < MaxOps /\ Add(t, gs)
    \/ \E t \in 1..Len(areas), gs \in AreaInputs : nops < MaxOps /\ Subtract(t, gs)
    \/ \E a \in 1..Len(areas), b \in 1..Len(areas) : nops < MaxOps /\ Union(a, b)
    \/ \E t \in 1..Len(areas) : nops < MaxOps /\ GetPositiveRegions(t)

Spec == Init /\ [][Next]_vars

\* one Area: add and subtract in any order, regions of a larger window
NextHole ==
    \/ \E gs \in HoleInputs : nops < MaxOps /\ Add(1, gs)
    \/ \E gs \in HoleInputs : nops < MaxOps /\ Subtract(1, gs)

SpecHole == InitHole /\ [][NextHole]_vars

\* one Area built from any list of rectangles, grown by add, then re-merged
NextMerge ==
    \/ \E g \in Rectangles(MergeWin) :
           Len(areas) = 1 /\ Len(raw[1].pos) < MaxRaw /\ Add(1, <<g>>)
    \/ Len(areas) = 1 /\ Remerge(1)

SpecMerge == InitMerge /\ [][NextMerge]_vars

\* one call of findPath on a pathfinder bound to an Area that is left alone
NextPath ==
    \/ \E start \in PathPoints, end \in PathPoints, turnPenalty \in Penalties :
           Len(calls) = 0 /\ FindPath(start, end, turnPenalty)
    \/ \E c \in 1..Len(calls) :
           Cardinality(calls[c].closedSet) < MaxExpand /\ Iterate(c)

SpecPath == InitPath /\ [][NextPath]_vars

\* several calls of findPath on one pathfinder, their loops interleaved
NextConc ==
    \/ \E start \in ConcPoints, end \in ConcPoints :
           Len(calls) < MaxCalls /\ FindPath(start, end, DefaultTurnPenalty)
    \/ \E c \in 1..Len(calls) :
           Cardinality(calls[c].closedSet) < MaxExpand /\ Iterate(c)

SpecConc == InitConc /\ [][NextConc]_vars

\* one pathfinder, one call, and a Polyline made of the path it returned
NextWire ==
    \/ \E start \in PathPoints, end \in PathPoints, turnPenalty \in Penalties :
           Len(calls) = 0 /\ FindPath(start, end, turnPenalty)
    \/ \E c \in 1..Len(calls) :
           Cardinality(calls[c].closedSet) < MaxExpand /\ Iterate(c)
    \/ \E c \in 1..Len(calls), gridSize \in GridSizes : NewPolyline(c, gridSize)

SpecWire == InitPath /\ [][NextWire]_vars

(***************************************************************************)
(* Properties                                                              *)
(***************************************************************************)
\* the cells of a Region with dx, dy defaulting to 1
CellsOf(grid) ==
    (grid.x..(grid.x + dxOf(grid) - 1)) \X (grid.y..(grid.y + dyOf(grid) - 1))

\* the cells covered by a list of Regions
Covered(grids) == UNION {CellsOf(grids[k]) : k \in 1..Len(grids)}

positiveOf(t) == heap[areas[t].positive]

negativeOf(t) == heap[areas[t].negative]

AreaIds == 1..Len(areas)

\* C1: merge preserves coverage: in every Area grown by add, a cell of the
\* window lies inside some rectangle of the merged positive list iff it lies
\* inside some rectangle of the raw list of all regions ever added
C1_MergePreservesCoverage ==
    \A t \in AreaIds : \A c \in MergeWindow :
        isPointInGrids(c[1], c[2], positiveOf(t))
            <=> isPointInGrids(c[1], c[2], raw[t].pos)

\* two regions with different edges were added and the merge re-cut them
C1_Witness ==
    /\ lastOp.op = "add"
    /\ Len(raw[1].pos) >= 2
    /\ Len(positiveOf(1)) >= 2
    /\ positiveOf(1) # raw[1].pos
    /\ \E i, j \in 1..Len(raw[1].pos) :
           /\ CellsOf(raw[1].pos[i]) \cap CellsOf(raw[1].pos[j]) # {}
           /\ CellsOf(raw[1].pos[i]) \ CellsOf(raw[1].pos[j]) # {}
           /\ CellsOf(raw[1].pos[j]) \ CellsOf(raw[1].pos[i]) # {}

\* C2: isOccupied(x, y) is true iff the cell is inside some Region of the
\* positive channel and inside no Region of the negative channel (so a solid
\* rectangle minus a strictly interior one has its ring occupied, its hole not)
C2_IsOccupied ==
    \A t \in AreaIds :
        LET occupied == Covered(positiveOf(t)) \ Covered(negativeOf(t))
        IN \A c \in HoleWindow : isOccupied(store, t, c[1], c[2]) <=> c \in occupied

\* the doughnut: 3x3 solid, the centre cell subtracted
C2_Witness ==
    \E t \in AreaIds :
        /\ raw[t].pos = <<Grid(0, 0, 3, 3)>>
        /\ raw[t].neg = <<Grid(1, 1, 0, 0)>>
        /\ ~isOccupied(store, t, 1, 1)
        /\ \A c \in ((0..2) \X (0..2)) \ {<<1, 1>>} : isOccupied(store, t, c[1], c[2])

\* C3: in every reachable state no two Regions of the same channel of an
\* Area share a cell
C3_NoOverlap ==
    \A t \in AreaIds :
        /\ \A i, j \in 1..Len(positiveOf(t)) :
               i # j => CellsOf(positiveOf(t)[i]) \cap CellsOf(positiveOf(t)[j]) = {}
        /\ \A i, j \in 1..Len(negativeOf(t)) :
               i # j => CellsOf(negativeOf(t)[i]) \cap CellsOf(negativeOf(t)[j]) = {}

\* a union of two Areas whose positive regions overlap, re-cut into strips
C3_Witness ==
    /\ lastOp.op = "union"
    /\ lastOp.t # lastOp.b
    /\ Len(positiveOf(lastOp.ret)) >= 2
    /\ Covered(positiveOf(lastOp.t)) \cap Covered(positiveOf(lastOp.b)) # {}
    /\ positiveOf(lastOp.ret) # positiveOf(lastOp.t)
    /\ positiveOf(lastOp.ret) # positiveOf(lastOp.b)

\* the least number of pairwise disjoint rectangles whose union is S: the
\* cell of S with the least x, then the least y, is the top-left corner of
\* its rectangle
RECURSIVE MinRects(_)
MinRects(S) ==
    IF S = {} THEN 0
    ELSE LET c == CHOOSE p \in S :
                      \A q \in S : p[1] < q[1] \/ (p[1] = q[1] /\ p[2] <= q[2])
             fits == {wh \in (1..Cardinality(S)) \X (1..Cardinality(S)) :
                         (c[1]..(c[1] + wh[1] - 1)) \X (c[2]..(c[2] + wh[2] - 1)) \subseteq S}
             rest == {MinRects(S \ ((c[1]..(c[1] + wh[1] - 1)) \X (c[2]..(c[2] + wh[2] - 1)))) :
                         wh \in fits}
         IN 1 + (CHOOSE m \in rest : \A n \in rest : m <= n)

\* C4: each channel's list is a minimal rectangle decomposition of the cells
\* it covers: no smaller set of disjoint rectangles covers the same cells
C4_Minimal ==
    \A t \in AreaIds :
        /\ Len(positiveOf(t)) = MinRects(Covered(positiveOf(t)))
        /\ Len(negativeOf(t)) = MinRects(Covered(negativeOf(t)))

\* C5: a fresh Area constructed from a.getPositiveRegions() has the same
\* positive list as a: same rectangles, same order, same dx/dy omission
C5_RemergeNoOp ==
    lastOp.op = "remerge" =>
        /\ positiveOf(lastOp.ret) = positiveOf(lastOp.t)
        /\ \A c \in MergeWindow :
               isOccupied(store, lastOp.ret, c[1], c[2])
                   <=> isOccupied(store, lastOp.t, c[1], c[2])

\* a re-merged list of several rectangles, one off the origin row, one with
\* dx or dy omitted and one with it present
C5_Witness ==
    /\ lastOp.op = "remerge"
    /\ lastOp.ret # lastOp.t
    /\ Len(positiveOf(lastOp.t)) >= 2
    /\ \E k \in 1..Len(positiveOf(lastOp.t)) : positiveOf(lastOp.t)[k].y > 0
    /\ \E k \in 1..Len(positiveOf(lastOp.t)) : "dy" \notin DOMAIN positiveOf(lastOp.t)[k]
    /\ \E k \in 1..Len(positiveOf(lastOp.t)) : "dy" \in DOMAIN positiveOf(lastOp.t)[k]

\* C6: if every cell of every Region passed to add is already covered by the
\* positive channel, the positive list after the call equals the list before
\* (and likewise subtract and the negative list)
C6_AddCoveredUnchanged ==
    [][/\ (lastOp'.op = "add" /\ Covered(lastOp'.arg) \subseteq Covered(positiveOf(lastOp'.t)))
           => heap'[areas'[lastOp'.t].positive] = positiveOf(lastOp'.t)
       /\ (lastOp'.op = "subtract" /\ Covered(lastOp'.arg) \subseteq Covered(negativeOf(lastOp'.t)))
           => heap'[areas'[lastOp'.t].negative] = negativeOf(lastOp'.t)]_vars

\* C7: union combines the channels independently: the result's positive
\* channel covers the cells of a's or b's positive channel, its negative
\* channel those of a's or b's negative channel, and it is occupied exactly
\* on the first minus the second
C7_UnionPerChannel ==
    lastOp.op = "union" =>
        LET r == lastOp.ret
            a == lastOp.t
            b == lastOp.b
            pos == Covered(positiveOf(a)) \cup Covered(positiveOf(b))
            neg == Covered(negativeOf(a)) \cup Covered(negativeOf(b))
        IN /\ Covered(positiveOf(r)) = pos
           /\ Covered(negativeOf(r)) = neg
           /\ \A c \in Window : isOccupied(store, r, c[1], c[2]) <=> c \in pos \ neg

\* a union of two distinct Areas, one with a positive region, the other with a hole
C7_Witness ==
    /\ lastOp.op = "union"
    /\ lastOp.t # lastOp.b
    /\ \E a, b \in {lastOp.t, lastOp.b} :
           a # b /\ positiveOf(a) # <<>> /\ negativeOf(b) # <<>>

\* the references held by the Areas of a store
refsOf(as) == {as[t].positive : t \in 1..Len(as)} \cup {as[t].negative : t \in 1..Len(as)}

\* C8: union is pure: it leaves the lists of both operands as they were and
\* returns a new Area with arrays of its own, and an add or subtract on one
\* Area changes the lists of no other Area
C8_UnionPure ==
    [][/\ lastOp'.op = "union" =>
              /\ \A t \in AreaIds :
                     /\ heap'[areas'[t].positive] = positiveOf(t)
                     /\ heap'[areas'[t].negative] = negativeOf(t)
              /\ lastOp'.ret = Len(areas) + 1
              /\ Len(areas') = Len(areas) + 1
              /\ areas'[lastOp'.ret].positive \notin refsOf(areas)
              /\ areas'[lastOp'.ret].negative \notin refsOf(areas)
              /\ areas'[lastOp'.ret].positive # areas'[lastOp'.ret].negative
       /\ lastOp'.op \in {"add", "subtract"} =>
              \A t \in AreaIds \ {lastOp'.t} :
                  /\ heap'[areas'[t].positive] = positiveOf(t)
                  /\ heap'[areas'[t].negative] = negativeOf(t)]_vars

\* a union has been made of non-empty operands, and then the result or an
\* operand was changed by add or subtract
C8_Witness ==
    /\ Len(areas) >= 3
    /\ lastOp.op \in {"add", "subtract"}
    /\ lastOp.arg # <<>>
    /\ positiveOf(3) # <<>>
    /\ positiveOf(lastOp.t) # raw[lastOp.t].pos \/ negativeOf(lastOp.t) # <<>>

\* C9: the Area returned by union(a, b) is occupied exactly where a or b is
C9_UnionIsSetUnion ==
    lastOp.op = "union" =>
        \A c \in Window :
            isOccupied(store, lastOp.ret, c[1], c[2])
                <=> (isOccupied(store, lastOp.t, c[1], c[2])
                        \/ isOccupied(store, lastOp.b, c[1], c[2]))

\* C10: the list obtained from getPositiveRegions is the positive list, and
\* it keeps the contents it had when returned whatever is called afterwards
C10_Snapshot ==
    /\ snap.ref # 0 => heap[snap.ref] = snap.seen
    /\ lastOp.op = "get" =>
           /\ snap.ref = areas[lastOp.t].positive
           /\ \A c \in Window :
                  c \in Covered(snap.seen) <=> isPointInGrids(c[1], c[2], raw[lastOp.t].pos)

\* a list was obtained, then the Area's positive channel was changed by add
C10_Witness ==
    /\ snap.ref # 0
    /\ snap.seen # <<>>
    /\ lastOp.op = "add"
    /\ lastOp.t = snap.of
    /\ positiveOf(snap.of) # snap.seen

(***************************************************************************)
(* Properties of AStarPathfinder                                           *)
(***************************************************************************)
CallIds == 1..Len(calls)

Returned(c) == calls[c].pc = "returned"

\* call c has returned a list of points
Succeeded(c) == Returned(c) /\ ~calls[c].ret.null

\* the occupancy the pathfinder reads
Occupied(x, y) == isOccupied(store, pathfinder.occupiedArea, x, y)

\* the cells from waypoint p to waypoint q: a straight segment when the two
\* differ in one coordinate
SegmentCells(p, q) ==
    {Point(x, y) : x \in (IF p.x <= q.x THEN p.x..q.x ELSE q.x..p.x),
                   y \in (IF p.y <= q.y THEN p.y..q.y ELSE q.y..p.y)}

\* C11: every path findPath returns is an obstacle-free orthogonal route:
\* two consecutive waypoints differ in exactly one coordinate, and no cell
\* of the segment between them, the waypoints included, is occupied.
C11_ObstacleFreeOrthogonal ==
    \A c \in CallIds :
        Succeeded(c) =>
            LET path == calls[c].ret.path
            IN /\ \A i \in 1..Len(path) : ~Occupied(path[i].x, path[i].y)
               /\ \A i \in 1..(Len(path) - 1) :
                     /\ (path[i].x = path[i + 1].x) # (path[i].y = path[i + 1].y)
                     /\ \A cell \in SegmentCells(path[i], path[i + 1]) :
                            ~Occupied(cell.x, cell.y)

\* a path with a corner and a segment of three cells was returned around an
\* obstacle that lies between its endpoints
C11_Witness ==
    \E c \in CallIds :
        /\ Succeeded(c)
        /\ Len(calls[c].ret.path) >= 3
        /\ \E i \in 1..(Len(calls[c].ret.path) - 1) :
               Cardinality(SegmentCells(calls[c].ret.path[i], calls[c].ret.path[i + 1])) >= 3
        /\ \E cell \in SegmentCells(calls[c].start, calls[c].end) :
               Occupied(cell.x, cell.y)

\* the cell route of a call that has returned a path: the node the loop
\* took last is still on the open list (Area.ts:297-302)
RouteOf(c) ==
    LET fr == calls[c]
    IN reconstructPath(fr.nodes,
                       fr.openList[lowestIndexFrom(fr.nodes, fr.openList, 2, 1)])

\* the route changes direction at its i-th cell
TurnsAt(route, i) ==
    \/ route[i].x - route[i - 1].x # route[i + 1].x - route[i].x
    \/ route[i].y - route[i - 1].y # route[i + 1].y - route[i].y

\* the positions of a route that are waypoints: both ends and every turn
WaypointIdx(route) ==
    {1, Len(route)} \cup {i \in 2..(Len(route) - 1) : TurnsAt(route, i)}

\* the k-th smallest element of a set of numbers
Nth(I, k) == CHOOSE i \in I : Cardinality({j \in I : j <= i}) = k

Sgn(n) == IF n > 0 THEN 1 ELSE IF n < 0 THEN -1 ELSE 0

\* the direction from waypoint p to waypoint q
Heading(p, q) == <<Sgn(q.x - p.x), Sgn(q.y - p.y)>>

\* C12: the returned path starts at start and ends at end, and its interior
\* points are exactly the cells at which the cell route changes direction,
\* in route order; hence no three consecutive waypoints continue in the
\* same direction, and no waypoint occurs twice.
C12_WaypointsAreCorners ==
    \A c \in CallIds :
        Succeeded(c) =>
            LET path == calls[c].ret.path
                route == RouteOf(c)
                I == WaypointIdx(route)
            IN /\ path = [k \in 1..Cardinality(I) |-> route[Nth(I, k)]]
               /\ path[1] = calls[c].start
               /\ path[Len(path)] = calls[c].end
               /\ \A i \in 2..(Len(path) - 1) :
                      Heading(path[i - 1], path[i]) # Heading(path[i], path[i + 1])
               /\ \A i \in 1..Len(path) : \A j \in 1..Len(path) :
                      path[i] = path[j] => i = j

\* a path with two corners was returned whose route has cells that are not
\* waypoints
C12_Witness ==
    \E c \in CallIds :
        /\ Succeeded(c)
        /\ Len(calls[c].ret.path) >= 4
        /\ Len(RouteOf(c)) > Len(calls[c].ret.path)

\* the cells the routes a returned path is compared with lie in: the
\* obstacles and the endpoints with a margin of one cell around them
PlaneWindow == {Point(x, y) : x \in -2..(PathWin + 2), y \in -2..(PathWin + 2)}

FreeCells == {p \in PlaneWindow : ~Occupied(p.x, p.y)}

\* North, South, West, East
Dirs == {<<0, -1>>, <<0, 1>>, <<-1, 0>>, <<1, 0>>}

\* the positions [at, dir] reached from those of S by one step into a free
\* cell, a step that keeps the direction or a step that changes it
StepsFrom(S, free, turning) ==
    {t \in {[at |-> Point(s[1].at.x + s[2][1], s[1].at.y + s[2][2]), dir |-> s[2]] :
                s \in {q \in S \X Dirs : (q[1].dir # q[2]) = turning}} :
        t.at \in free}

\* the first steps from the start cell: no direction to change yet
FirstSteps(start, free) ==
    {t \in {[at |-> Point(start.x + d[1], start.y + d[2]), dir |-> d] : d \in Dirs} :
        t.at \in free}

\* L[k] holds the positions some route of cost exactly k ends in; the least
\* cost of a route from start to end, or limit when there is none below it
RECURSIVE CheapestFrom(_, _, _, _, _, _)
CheapestFrom(free, start, end, turnPenalty, L, limit) ==
    LET k == Len(L) + 1
        next == IF k = 1 THEN FirstSteps(start, free)
                ELSE StepsFrom(L[k - 1], free, FALSE) \cup
                     (IF k - 1 - turnPenalty >= 1
                      THEN StepsFrom(L[k - 1 - turnPenalty], free, TRUE)
                      ELSE {})
    IN IF k >= limit THEN limit
       ELSE IF \E t \in next : t.at = end THEN k
       ELSE CheapestFrom(free, start, end, turnPenalty, Append(L, next), limit)

MinCost(start, end, turnPenalty, limit) ==
    IF start = end THEN 0
    ELSE CheapestFrom(FreeCells, start, end, turnPenalty, <<>>, limit)

\* the cost of a cell route: one per step and turnPenalty per turn
RouteCost(route, turnPenalty) ==
    (Len(route) - 1) +
    turnPenalty * Cardinality({i \in 2..(Len(route) - 1) : TurnsAt(route, i)})

\* C13: findPath never returns a suboptimal path: the cost of the returned
\* route, its steps plus turnPenalty per change of direction, is the least
\* cost of any route from start to end through unoccupied cells.
C13_Optimal ==
    \A c \in CallIds :
        Succeeded(c) =>
            LET cost == RouteCost(RouteOf(c), calls[c].turnPenalty)
            IN cost = MinCost(calls[c].start, calls[c].end, calls[c].turnPenalty, cost)

\* C14: when the start cell or the end cell is occupied, findPath returns
\* null at once, whatever the turn penalty: the call has returned before
\* its loop is entered, with nothing on its open list and nothing closed.
C14_BlockedEndpoint ==
    \A c \in CallIds :
        (\/ Occupied(calls[c].start.x, calls[c].start.y)
         \/ Occupied(calls[c].end.x, calls[c].end.y)) =>
            /\ Returned(c)
            /\ calls[c].ret = Null
            /\ calls[c].openList = <<>>
            /\ calls[c].closedSet = {}

\* a call with a free start cell and an occupied end cell, penalty 0, has
\* returned null
C14_Witness ==
    \E c \in CallIds :
        /\ ~Occupied(calls[c].start.x, calls[c].start.y)
        /\ Occupied(calls[c].end.x, calls[c].end.y)
        /\ calls[c].turnPenalty = 0
        /\ Returned(c)
        /\ calls[c].ret = Null

\* the four neighbours of a cell
Around(p) == {Point(p.x + d[1], p.y + d[2]) : d \in Dirs}

\* the cells of free that a 4-connected walk from the cells of seen reaches
RECURSIVE Flood(_, _, _)
Flood(free, seen, frontier) ==
    LET new == (UNION {Around(p) : p \in frontier} \cap free) \ seen
    IN IF new = {} THEN seen ELSE Flood(free, seen \cup new, new)

\* end can be reached from start through unoccupied cells; PlaneWindow holds
\* a ring of free cells around every obstacle, so a walk that exists in the
\* plane exists in the window
Reachable(start, end) ==
    /\ start \in FreeCells
    /\ end \in Flood(FreeCells, {start}, {start})

\* the cell lies in the bounding box of the occupied cells
InHull(x, y) ==
    LET occupied == PlaneWindow \ FreeCells
    IN /\ \E a \in occupied : a.x <= x
       /\ \E a \in occupied : x <= a.x
       /\ \E a \in occupied : a.y <= y
       /\ \E a \in occupied : y <= a.y

\* call c has a cell outside the bounding box of the obstacles on its open
\* list
Escaped(c) ==
    \E i \in 1..Len(calls[c].openList) :
        ~InHull(calls[c].nodes[calls[c].openList[i]].x,
                calls[c].nodes[calls[c].openList[i]].y)

\* C15: whenever the end cell cannot be reached from the start cell,
\* findPath terminates: its open list runs empty and it returns null.  The
\* open list can run empty only if every cell ever opened is enclosed by
\* occupied cells, hence inside their bounding box: past the box every cell
\* taken opens its outward neighbour.  So with an unreachable end no cell
\* outside the box is ever opened, and a call that has returned has
\* returned null.
C15_UnreachableTerminates ==
    \A c \in CallIds :
        (Escaped(c) \/ Succeeded(c)) => Reachable(calls[c].start, calls[c].end)

\* C16: trivial path: over an empty Area and with the default turn penalty,
\* a call whose start and end are distinct cells of one row or one column
\* returns exactly the two points start and end.
C16_TrivialPath ==
    \A c \in CallIds :
        (/\ heap[areas[pathfinder.occupiedArea].positive] = <<>>
         /\ calls[c].turnPenalty = DefaultTurnPenalty
         /\ calls[c].start # calls[c].end
         /\ (calls[c].start.x = calls[c].end.x \/ calls[c].start.y = calls[c].end.y)
         /\ Returned(c)) =>
            calls[c].ret = Path(<<calls[c].start, calls[c].end>>)

\* over the empty Area a call along a row, three cells to the West, has
\* returned its two endpoints
C16_Witness ==
    \E c \in CallIds :
        /\ heap[areas[pathfinder.occupiedArea].positive] = <<>>
        /\ calls[c].turnPenalty = DefaultTurnPenalty
        /\ calls[c].start.y = calls[c].end.y
        /\ calls[c].start.x - calls[c].end.x = 3
        /\ calls[c].ret = Path(<<calls[c].start, calls[c].end>>)

\* the free cells that are a gap of a straight wall: the two neighbours on
\* one line with the cell are occupied
GapCells ==
    {g \in FreeCells : \/ Occupied(g.x - 1, g.y) /\ Occupied(g.x + 1, g.y)
                       \/ Occupied(g.x, g.y - 1) /\ Occupied(g.x, g.y + 1)}

\* the gap g is the only passage from start to end
OnlyPassage(start, end, g) ==
    /\ start # g
    /\ end # g
    /\ Reachable(start, end)
    /\ end \notin Flood(FreeCells \ {g}, {start}, {start})

\* the positions reached from those of S by going straight on
RECURSIVE Rays(_, _, _)
Rays(free, S, frontier) ==
    LET new == StepsFrom(frontier, free, FALSE) \ S
    IN IF new = {} THEN S ELSE Rays(free, S \cup new, new)

\* T holds the positions some route with k corners ends in; the least
\* number of corners of a route from start to end, or limit when there is
\* none below it
RECURSIVE FewestCornersFrom(_, _, _, _, _)
FewestCornersFrom(free, end, T, k, limit) ==
    IF k >= limit THEN limit
    ELSE IF \E t \in T : t.at = end THEN k
    ELSE LET turned == StepsFrom(T, free, TRUE)
         IN FewestCornersFrom(free, end, Rays(free, turned, turned), k + 1, limit)

MinCorners(start, end, limit) ==
    IF start = end THEN 0
    ELSE FewestCornersFrom(FreeCells, end,
                           Rays(FreeCells, FirstSteps(start, FreeCells),
                                FirstSteps(start, FreeCells)),
                           0, limit)

\* the number of corners of a cell route
Corners(route) == Cardinality({i \in 2..(Len(route) - 1) : TurnsAt(route, i)})

\* C17: forced detour: when a wall of occupied cells separates start from
\* end and one unoccupied gap cell of it is the only passage, findPath
\* called with the default turn penalty returns a path, its route passes
\* through the gap, and the number of its corners is the least over all
\* obstacle-free routes from start to end.
C17_ForcedDetour ==
    \A c \in CallIds :
        (/\ Returned(c)
         /\ calls[c].turnPenalty = DefaultTurnPenalty
         /\ \E g \in GapCells : OnlyPassage(calls[c].start, calls[c].end, g)) =>
            /\ Succeeded(c)
            /\ \A g \in GapCells :
                   OnlyPassage(calls[c].start, calls[c].end, g) =>
                       \E i \in 1..Len(RouteOf(c)) : RouteOf(c)[i] = g
            /\ Corners(RouteOf(c)) =
                   MinCorners(calls[c].start, calls[c].end, Corners(RouteOf(c)))

\* the number of steps along a list of waypoints, from the i-th on
RECURSIVE StepsAlong(_, _)
StepsAlong(path, i) ==
    IF i >= Len(path) THEN 0
    ELSE Abs(path[i + 1].x - path[i].x) + Abs(path[i + 1].y - path[i].y)
         + StepsAlong(path, i + 1)

\* the cost of a returned path: every interior waypoint is one turn
PathCost(path, turnPenalty) ==
    StepsAlong(path, 1) + turnPenalty * (IF Len(path) > 2 THEN Len(path) - 2 ELSE 0)

\* the obstacle field is its own mirror image in the diagonal x = y
FieldSymmetric == \A p \in PlaneWindow : Occupied(p.x, p.y) = Occupied(p.y, p.x)

\* C18: cost symmetry: over a symmetric obstacle field, findPath(A, B) and
\* findPath(B, A) with the same turn penalty both return null, or both
\* return a path and the two paths have the same cost, steps plus
\* turnPenalty per change of direction.
C18_CostSymmetry ==
    \A c \in CallIds :
        (Returned(c) /\ FieldSymmetric) =>
            LET back == findPath(store, pathfinder, calls[c].end, calls[c].start,
                                 calls[c].turnPenalty)
            IN back.pc = "returned" =>
                   /\ back.ret.null = calls[c].ret.null
                   /\ PathCost(back.ret.path, calls[c].turnPenalty) =
                          PathCost(calls[c].ret.path, calls[c].turnPenalty)

\* C19: findPath never mutates its occupancy source: no step of a call, from
\* its first statement to its return, changes the positive or the negative
\* region list of the Area the pathfinder is bound to, whether the call
\* ends with a path or with null.
C19_AreaUnchanged ==
    [][calls' # calls =>
          /\ heap'[areas'[pathfinder.occupiedArea].positive] =
                 heap[areas[pathfinder.occupiedArea].positive]
          /\ heap'[areas'[pathfinder.occupiedArea].negative] =
                 heap[areas[pathfinder.occupiedArea].negative]
          /\ areas' = areas]_vars

\* over a ring with a gap a call has gone several times through its loop and
\* returned, and the two lists are the ones the Area was built with
C19_Witness ==
    \E c \in CallIds :
        /\ Returned(c)
        /\ Cardinality(calls[c].closedSet) >= 3
        /\ positiveOf(pathfinder.occupiedArea) = mergeGrids(raw[1].pos)
        /\ negativeOf(pathfinder.occupiedArea) = mergeGrids(raw[1].neg)
        /\ Len(negativeOf(pathfinder.occupiedArea)) >= 2

\* C20: findPath calls share no mutable state: when the loops of several
\* calls on one pathfinder over one unchanged Area are interleaved in any
\* order, each call returns what the same call returns when it runs alone,
\* and two calls with the same arguments return the same result.
C20_CallsIndependent ==
    \A c \in CallIds :
        Returned(c) =>
            /\ calls[c].ret = findPath(store, pathfinder, calls[c].start, calls[c].end,
                                       calls[c].turnPenalty).ret
            /\ \A d \in CallIds :
                   (/\ Returned(d)
                    /\ calls[d].start = calls[c].start
                    /\ calls[d].end = calls[c].end
                    /\ calls[d].turnPenalty = calls[c].turnPenalty) =>
                       calls[d].ret = calls[c].ret

\* around the occupied cell (0, 0) a later call has returned a path with a
\* corner while an earlier call in the opposite direction is in the middle
\* of its loop
C20_Witness ==
    \E c \in CallIds : \E d \in CallIds :
        /\ c < d
        /\ calls[c].pc = "loop"
        /\ Cardinality(calls[c].closedSet) >= 2
        /\ Len(calls[c].openList) >= 2
        /\ calls[c].start = calls[d].end
        /\ calls[c].end = calls[d].start
        /\ Succeeded(d)
        /\ Len(calls[d].ret.path) >= 3

\* a limit on explored cells a caller could configure
ExploreLimit == MaxExpand \div 2

\* the cells call c has explored: those its loop took off the open list
Explored(c) == Cardinality(calls[c].closedSet)

\* call c has stopped with an outcome that is neither null nor a path
Aborted(c) == Returned(c) /\ calls[c].ret # Null /\ ~Succeeded(c)

\* C21: findPath bounds its work by a maximum explored-node count: a call
\* that has explored ExploreLimit cells without reaching the goal or emptying
\* its open list has stopped, with an outcome other than null and other than
\* a path.
C21_ExploreBound ==
    \A c \in CallIds :
        Explored(c) >= ExploreLimit /\ ~Succeeded(c) /\ calls[c].ret # Null =>
            Aborted(c)

\* the nodes of call c the search holds: those on its open list and those
\* it has taken off it
SearchNodes(c) ==
    {n \in 1..Len(calls[c].nodes) :
        \/ \E i \in 1..Len(calls[c].openList) : calls[c].openList[i] = n
        \/ nodeId(calls[c].nodes[n].x, calls[c].nodes[n].y) \in calls[c].closedSet}

\* the cell route from the start to node n of call c along the parent links
ChainOf(c, n) == reconstructPath(calls[c].nodes, n)

\* C22: at every point of the search, for every node on the open list and
\* every node taken off it, g is the cost of the route its parent links
\* describe back to start, one per step plus turnPenalty per change of
\* direction (none for the first step), h is the Manhattan distance to end
\* and f = g + h.
C22_CostModel ==
    \A c \in CallIds : \A n \in SearchNodes(c) :
        LET node == calls[c].nodes[n]
        IN /\ node.g = RouteCost(ChainOf(c, n), calls[c].turnPenalty)
           /\ node.h = Abs(node.x - calls[c].end.x) + Abs(node.y - calls[c].end.y)
           /\ node.f = node.g + node.h

\* a node of call c has been relaxed: the nodes one expansion inserts lie
\* side by side in the order of creation, so two nodes with one parent and
\* a node of another parent between them show that one of the three was
\* given a new parent
Relaxed(c) ==
    \E n \in SearchNodes(c), m \in SearchNodes(c), k \in SearchNodes(c) :
        /\ n < m /\ m < k
        /\ calls[c].nodes[n].parent = calls[c].nodes[k].parent
        /\ calls[c].nodes[m].parent # calls[c].nodes[k].parent

\* a search with a turn penalty in which a node has been relaxed and an
\* open node's route turns and pays for the turn
C22_Witness ==
    \E c \in CallIds :
        /\ calls[c].turnPenalty > 0
        /\ Relaxed(c)
        /\ \E i \in 1..Len(calls[c].openList) :
               LET n == calls[c].openList[i]
               IN /\ Corners(ChainOf(c, n)) >= 1
                  /\ calls[c].nodes[n].g >=
                         Len(ChainOf(c, n)) - 1 + calls[c].turnPenalty

\* the open nodes of call c, by their index of creation: a node is created
\* when it is inserted (Area.ts:340-343)
OpenNodes(fr) == {fr.openList[i] : i \in 1..Len(fr.openList)}

\* the node an expansion of call c removes in this step: the open node
\* whose cell the step closes
Removed(c) ==
    {n \in OpenNodes(calls[c]) :
        /\ nodeId(calls[c].nodes[n].x, calls[c].nodes[n].y) \notin calls[c].closedSet
        /\ nodeId(calls[c].nodes[n].x, calls[c].nodes[n].y) \in calls'[c].closedSet}

\* C23: at every expansion the node removed from the open list has the
\* lowest f of all open nodes, and among the open nodes with that f it is
\* the one inserted earliest; the open list keeps the order of insertion, a
\* relaxed node stays where it is.
C23_TieBreak ==
    [][\A c \in CallIds :
          /\ \A r \in Removed(c) :
                 \A n \in OpenNodes(calls[c]) :
                     /\ calls[c].nodes[r].f <= calls[c].nodes[n].f
                     /\ calls[c].nodes[r].f = calls[c].nodes[n].f => r <= n
          /\ calls[c].pc = "loop" /\ calls'[c] # calls[c] /\ ~Returned(c)' =>
                 Cardinality(Removed(c)) = 1
          /\ \A i \in 1..Len(calls'[c].openList) : \A j \in 1..Len(calls'[c].openList) :
                 i < j => calls'[c].openList[i] < calls'[c].openList[j]]_vars

\* an expansion has happened, a node has been relaxed, and two open nodes
\* tie for the lowest f, with an open node of higher f inserted before them
C23_Witness ==
    \E c \in CallIds :
        /\ calls[c].pc = "loop"
        /\ calls[c].closedSet # {}
        /\ Relaxed(c)
        /\ \E n \in OpenNodes(calls[c]), m \in OpenNodes(calls[c]), k \in OpenNodes(calls[c]) :
               /\ k < n /\ n < m
               /\ calls[c].nodes[n].f = calls[c].nodes[m].f
               /\ calls[c].nodes[k].f > calls[c].nodes[n].f
               /\ \A o \in OpenNodes(calls[c]) : calls[c].nodes[n].f <= calls[c].nodes[o].f

\* the start node of a call: the first node it creates (Area.ts:273)
StartNode == 1

\* the cells the parent links of node n lead through, n's own first, read
\* for at most fuel links; the walk stops at a node without a parent
RECURSIVE ChainUp(_, _, _)
ChainUp(nodes, n, fuel) ==
    IF fuel = 0 \/ n = 0 THEN <<>>
    ELSE <<n>> \o ChainUp(nodes, nodes[n].parent, fuel - 1)

\* C24: the parent links form a tree rooted at the start cell throughout
\* the search: from every node on the open list or taken off it the links
\* reach the start node within as many steps as there are nodes, each link
\* joins two 4-adjacent cells, and no cell occurs twice on the chain.
C24_ParentTree ==
    \A c \in CallIds : \A n \in SearchNodes(c) :
        LET nodes == calls[c].nodes
            chain == ChainUp(nodes, n, Len(nodes) + 1)
        IN /\ Len(chain) <= Len(nodes)
           /\ chain[Len(chain)] = StartNode
           /\ nodes[StartNode].x = calls[c].start.x
           /\ nodes[StartNode].y = calls[c].start.y
           /\ nodes[StartNode].parent = 0
           /\ \A i \in 1..(Len(chain) - 1) :
                  Abs(nodes[chain[i]].x - nodes[chain[i + 1]].x) +
                  Abs(nodes[chain[i]].y - nodes[chain[i + 1]].y) = 1
           /\ \A i \in 1..Len(chain) : \A j \in 1..Len(chain) :
                  (/\ nodes[chain[i]].x = nodes[chain[j]].x
                   /\ nodes[chain[i]].y = nodes[chain[j]].y) => i = j

\* a node has been relaxed to a new parent, and an open node lies four
\* links from the start on a chain that turns
C24_Witness ==
    \E c \in CallIds :
        /\ calls[c].pc = "loop"
        /\ Relaxed(c)
        /\ \E n \in OpenNodes(calls[c]) :
               /\ Len(ChainUp(calls[c].nodes, n, Len(calls[c].nodes) + 1)) >= 5
               /\ Corners(ChainOf(c, n)) >= 1

\* the cells of the open nodes of a frame
OpenCells(fr) == {nodeId(fr.nodes[n].x, fr.nodes[n].y) : n \in OpenNodes(fr)}

\* the open list and the closed set of a frame are in order: one open node
\* per cell, no cell both open and closed, no occupied cell open or closed
Disciplined(fr) ==
    /\ \A n \in OpenNodes(fr) : \A m \in OpenNodes(fr) :
           (fr.nodes[n].x = fr.nodes[m].x /\ fr.nodes[n].y = fr.nodes[m].y) => n = m
    /\ \A i \in 1..Len(fr.openList) : \A j \in 1..Len(fr.openList) :
           fr.openList[i] = fr.openList[j] => i = j
    /\ OpenCells(fr) \cap fr.closedSet = {}
    /\ \A cell \in OpenCells(fr) \cup fr.closedSet : ~Occupied(cell[1], cell[2])

\* C25: in every state of the search the open list holds at most one node
\* per coordinate, no coordinate is both open and closed and no occupied
\* cell is open or closed; a step never inserts a closed cell into the open
\* list and never takes a cell out of the closed set, and it changes the g
\* of an open node only to a strictly lower value.
C25_OpenClosedDiscipline ==
    [][\A c \in CallIds :
          /\ Disciplined(calls[c])
          /\ Disciplined(calls'[c])
          /\ calls[c].closedSet \subseteq calls'[c].closedSet
          /\ \A n \in OpenNodes(calls'[c]) \ OpenNodes(calls[c]) :
                 nodeId(calls'[c].nodes[n].x, calls'[c].nodes[n].y)
                     \notin calls'[c].closedSet
          /\ \A n \in OpenNodes(calls[c]) \cap OpenNodes(calls'[c]) :
                 /\ calls'[c].nodes[n].g <= calls[c].nodes[n].g
                 /\ calls'[c].nodes[n].x = calls[c].nodes[n].x
                 /\ calls'[c].nodes[n].y = calls[c].nodes[n].y]_vars

\* a search next to an obstacle in which cells are closed, cells are open
\* and a node has been relaxed
C25_Witness ==
    \E c \in CallIds :
        /\ calls[c].pc = "loop"
        /\ Relaxed(c)
        /\ Cardinality(calls[c].closedSet) >= 3
        /\ Cardinality(OpenCells(calls[c])) >= 3
        /\ \E cell \in calls[c].closedSet : \E d \in Dirs :
               Occupied(cell[1] + d[1], cell[2] + d[2])

\* C26: across any sequence of add and subtract calls on an Area the cells
\* its positive channel covers and the cells its negative channel covers
\* never decrease; add leaves the negative list as it is and subtract leaves
\* the positive list as it is.
C26_ChannelsNeverShrink ==
    [][\A t \in AreaIds :
          /\ Covered(positiveOf(t)) \subseteq Covered(heap'[areas'[t].positive])
          /\ Covered(negativeOf(t)) \subseteq Covered(heap'[areas'[t].negative])
          /\ (lastOp'.op = "add" /\ lastOp'.t = t) =>
                 /\ heap'[areas'[t].negative] = negativeOf(t)
                 /\ Covered(lastOp'.arg) \subseteq Covered(heap'[areas'[t].positive])
          /\ (lastOp'.op = "subtract" /\ lastOp'.t = t) =>
                 /\ heap'[areas'[t].positive] = positiveOf(t)
                 /\ Covered(lastOp'.arg) \subseteq Covered(heap'[areas'[t].negative])]_vars

\* an Area with a hole to which a region was added that its first region
\* does not cover: the positive channel covers both, the hole is as it was
C26_Witness ==
    /\ lastOp.op = "add"
    /\ Len(raw[lastOp.t].pos) = 2
    /\ raw[lastOp.t].neg # <<>>
    /\ ~(Covered(lastOp.arg) \subseteq Covered(<<raw[lastOp.t].pos[1]>>))
    /\ ~(Covered(<<raw[lastOp.t].pos[1]>>) \subseteq Covered(lastOp.arg))
    /\ Covered(raw[lastOp.t].pos) = Covered(positiveOf(lastOp.t))
    /\ Covered(raw[lastOp.t].neg) = Covered(negativeOf(lastOp.t))

\* C27: after any interleaving of add and subtract calls on an Area,
\* isOccupied depends only on what was ever added and what was ever
\* subtracted, not on the order of the calls: a cell is occupied exactly
\* when some region ever added contains it and no region ever subtracted
\* does, so a subtracted cell stays unoccupied when a region covering it is
\* added later.
C27_OrderIndependent ==
    \A t \in AreaIds :
        \A c \in HoleWindow :
            isOccupied(store, t, c[1], c[2]) <=>
                /\ \E k \in 1..Len(raw[t].pos) : c \in CellsOf(raw[t].pos[k])
                /\ \A k \in 1..Len(raw[t].neg) : c \notin CellsOf(raw[t].neg[k])

\* a cell was subtracted first and a region covering it was added
\* afterwards: the cell is not occupied, the rest of the region is
C27_Witness ==
    /\ lastOp.op = "add"
    /\ raw[lastOp.t].neg # <<>>
    /\ Len(raw[lastOp.t].pos) = 2
    /\ Covered(raw[lastOp.t].neg) \subseteq Covered(lastOp.arg)
    /\ Covered(raw[lastOp.t].neg) # Covered(lastOp.arg)
    /\ ~(Covered(raw[lastOp.t].neg) \subseteq Covered(<<raw[lastOp.t].pos[1]>>))
    /\ \A c \in Covered(raw[lastOp.t].neg) : ~isOccupied(store, lastOp.t, c[1], c[2])
    /\ \A c \in Covered(lastOp.arg) \ Covered(raw[lastOp.t].neg) :
           isOccupied(store, lastOp.t, c[1], c[2])

\* the grid size at which a pixel is a cell
UnitGridSize == 1

\* the rasterized pathfinder over the regions the Area of the Area-backed
\* pathfinder was built from
RasterTwin == newRasterPathfinder(raw[pathfinder.occupiedArea].pos, UnitGridSize)

\* C28: for an obstacle list with no holes the rasterized pathfinder with
\* gridSize 1 and the Area-backed pathfinder over an Area holding the same
\* regions return the same result for every start, end and turnPenalty: the
\* same list of waypoints, or null from both; and they agree on which cells
\* are occupied.
C28_VariantsAgree ==
    raw[pathfinder.occupiedArea].neg = <<>> =>
        /\ \A c \in CallIds :
               Returned(c) =>
                   LET twin == rasterFindPath(RasterTwin, calls[c].start, calls[c].end,
                                              calls[c].turnPenalty)
                   IN twin.pc = "returned" /\ twin.ret = calls[c].ret
        /\ \A p \in PlaneWindow : Occupied(p.x, p.y) <=> rasterIsOccupied(RasterTwin, p.x, p.y)

\* both variants have returned the same path with two corners around a
\* square of several cells
C28_Witness ==
    /\ raw[pathfinder.occupiedArea].neg = <<>>
    /\ Cardinality(RasterTwin.occupiedPixels) >= 4
    /\ \E c \in CallIds :
           /\ Succeeded(c)
           /\ Len(calls[c].ret.path) >= 4
           /\ rasterFindPath(RasterTwin, calls[c].start, calls[c].end,
                             calls[c].turnPenalty).ret = calls[c].ret

\* C29: Shape.isOccupied(x, y) is true exactly when the coordinate lies in
\* one of the shape's occupied Regions, a missing dx and a missing dy each
\* standing for 1: on every Region list, the merged lists with only one of
\* dx and dy included, it agrees with Area's point-in-rectangle test.
C29_ShapeIsOccupied ==
    \A t \in AreaIds :
        \A c \in MergeWindow :
            shapeIsOccupied(c[1], c[2], positiveOf(t)) <=>
                isPointInGrids(c[1], c[2], positiveOf(t))

\* the cells on the segments between consecutive waypoints of a path
SegmentsOf(path) ==
    UNION {SegmentCells(path[i], path[i + 1]) : i \in 1..(Len(path) - 1)}

\* the cells of a list of grids {x, y}, as points
PointsOf(cells) == {Point(cells[k].x, cells[k].y) : k \in 1..Len(cells)}

\* calculateOccupiedArea has returned, for the path the Polyline was made
\* of, exactly the cells on the path's segments, each once and each a
\* single cell
WireCellsExact ==
    lastOp.op = "polyline" =>
        /\ PointsOf(lastOp.arg) = SegmentsOf(calls[lastOp.b].ret.path)
        /\ \A k \in 1..Len(lastOp.arg) :
               /\ DOMAIN lastOp.arg[k] = {"x", "y"}
               /\ \A l \in 1..Len(lastOp.arg) : lastOp.arg[k] = lastOp.arg[l] => k = l

\* C30: a routed wire becomes an obstacle: for a Polyline whose points are
\* the waypoints of a path findPath returned, calculateOccupiedArea returns
\* exactly the cells on the path's segments, each cell once, and in the
\* Area the Polyline's constructor adds them to every cell of the route is
\* occupied and no other cell is.
C30_WireBecomesObstacle ==
    [][lastOp'.op = "polyline" /\ lastOp.op # "polyline" =>
          /\ WireCellsExact'
          /\ \A p \in PlaneWindow :
                 isOccupied([heap |-> heap', areas |-> areas'], lastOp'.ret, p.x, p.y)
                 <=> \E i \in 1..Len(RouteOf(lastOp'.b)) : RouteOf(lastOp'.b)[i] = p]_vars

====
